---- MODULE Spec2Model ----
(***************************************************************************)
(* Model of src/bam/pileup.rs: the Pileups iterator over the pileup        *)
(* engine (htslib's bam_plp_* functions), the Pileup column it yields,     *)
(* the Alignment view over one engine record and the Indel decoding.       *)
(*                                                                         *)
(* The engine is the environment.  Every call the wrapper makes into it    *)
(* is appended to `calls`; what bam_plp_auto returns on each call is       *)
(* chosen nondeterministically and recorded in `outs`.                     *)
(***************************************************************************)
EXTENDS Integers, Sequences, FiniteSets, TLC

\* ---------------------------------------------------------------- bounds

\* Number of bits of the machine integers of the model.  The code uses
\* 32-bit integers (i32, u32); the model keeps two's-complement arithmetic
\* at a width TLC's integers can represent.
Width == 16

\* Largest number of calls to next() on one Pileups instance.
MaxPulls == 3

\* Largest number of calls to set_max_depth() on one Pileups instance.
MaxSetCalls == 1

\* Largest depth of a column the engine produces.
MaxDepth == 2

\* ------------------------------------------------------- machine integers

I32Min == -(2 ^ (Width - 1))
I32Max == (2 ^ (Width - 1)) - 1
U32Max == (2 ^ Width) - 1

\* `x as u32`: the value modulo 2^Width.
AsU32(x) == x % (2 ^ Width)

\* `x as i32`: the two's-complement reading of the low Width bits.
AsI32(x) == LET m == x % (2 ^ Width) IN IF m > I32Max THEN m - (2 ^ Width) ELSE m

\* ------------------------------------------------------------- the engine

\* The null pointer (inner.is_null()).
NULL == 0

\* Engine handles (htslib::bam_plp_t) a Pileups can be constructed over.
Handles == {1}

\* Non-null addresses of the engine's column buffer.  The engine hands out
\* the same buffer on every call.
Ptrs == {1}

\* (reference id, position) of the columns the engine produces.  The engine
\* reports a column with non-negative slot values only; the `as u32` casts
\* of next() are then the identity on them.
Coords == {<<0, 1>>, <<1, 0>>}

\* Depth values the engine writes together with a null pointer: the error
\* sentinel -1 and values that are not the sentinel.
NullDepths == {-1, 0, -2}

\* What one call of bam_plp_auto hands back: the returned pointer and the
\* three output slots.  With a non-null pointer the engine reports a column
\* of `depth` records at that address; the slots keep their initial 0 where
\* the engine writes nothing.
ColumnOuts ==
    {[ptr |-> p, tid |-> c[1], pos |-> c[2], depth |-> d] :
        p \in Ptrs, c \in Coords, d \in 0 .. MaxDepth}
NullOuts == [ptr : {NULL}, tid : {0}, pos : {0}, depth : NullDepths]
EngineOuts == ColumnOuts \cup NullOuts

VARIABLES
    itr,      \* Pileups.itr: the engine handle of the instance
    state,    \* "live" from Pileups::new until the instance is dropped
    calls,    \* every engine call made so far, in order
    outs,     \* what bam_plp_auto returned, one entry per call
    results,  \* what next() returned to the consumer, one entry per pull
    reqs,     \* the arguments the consumer passed to set_max_depth
    access,   \* the consumer's latest call of Pileup::alignments
    raw,      \* Alignment.inner.indel: the raw indel value of a record
    decoded,  \* what Alignment::indel returned for `raw`
    twin      \* a second Pileups instance: its handle and whether it is live

vars == <<itr, state, calls, outs, results, reqs, access, raw, decoded, twin>>

\* ------------------------------------------------------------- Pileups::next

\* MkPileup with the reference id and the position exchanged.
MkPileup_swapped(ptr, tid, pos, depth) ==
    [inner |-> ptr, depth |-> AsU32(depth), tid |-> AsU32(pos), pos |-> AsU32(tid)]

\* Pileup { inner, depth: depth as u32, tid: tid as u32, pos: pos as u32 }
MkPileup(ptr, tid, pos, depth) ==
    [inner |-> ptr, depth |-> AsU32(depth), tid |-> AsU32(tid), pos |-> AsU32(pos)]

\* The three values of Option<Result<Pileup, PileupError>>.
NoneResult == [kind |-> "None"]
ErrResult == [kind |-> "Err", err |-> "PileupError::Some"]
OkResult(p) == [kind |-> "Ok", val |-> p]

\* NextResult with every negative depth taken for the error sentinel.
NextResult_anyNegativeDepth(out) ==
    IF out.ptr = NULL
    THEN IF out.depth < 0 THEN ErrResult ELSE NoneResult
    ELSE OkResult(MkPileup(out.ptr, out.tid, out.pos, out.depth))

\* NextResult with a depth of zero taken for end-of-data whatever the pointer.
NextResult_endOnZeroDepth(out) ==
    IF out.ptr = NULL \/ out.depth = 0
    THEN IF out.depth = -1 THEN ErrResult ELSE NoneResult
    ELSE OkResult(MkPileup(out.ptr, out.tid, out.pos, out.depth))

\* match inner.is_null() { true if depth == -1 => .., true => .., false => .. }
NextResult(out) ==
    IF out.ptr = NULL
    THEN IF out.depth = -1 THEN ErrResult ELSE NoneResult
    ELSE OkResult(MkPileup(out.ptr, out.tid, out.pos, out.depth))

AutoCall(h) == [op |-> "bam_plp_auto", h |-> h, arg |-> 0]
SetMaxcntCall(h, n) == [op |-> "bam_plp_set_maxcnt", h |-> h, arg |-> n]
ResetCall(h) == [op |-> "bam_plp_reset", h |-> h, arg |-> 0]
DestroyCall(h) == [op |-> "bam_plp_destroy", h |-> h, arg |-> 0]

\* next() of a fused iterator: once a pull has returned an error or
\* end-of-data, later pulls answer end-of-data without calling the engine.
PullNext_fused ==
    /\ state = "live"
    /\ Len(results) < MaxPulls
    /\ IF Len(results) > 0 /\ results[Len(results)].kind # "Ok"
       THEN /\ results' = Append(results, NoneResult)
            /\ UNCHANGED <<calls, outs>>
       ELSE \E out \in EngineOuts :
               /\ calls' = Append(calls, AutoCall(itr))
               /\ outs' = Append(outs, out)
               /\ results' = Append(results, NextResult(out))
    /\ UNCHANGED <<itr, state, reqs, access, raw, decoded, twin>>

\* next() that releases the handle itself when it returns an error or
\* end-of-data.
PullNext_releaseOnEnd ==
    /\ state = "live"
    /\ Len(results) < MaxPulls
    /\ \E out \in EngineOuts :
          /\ calls' = IF out.ptr = NULL
                      THEN calls \o <<AutoCall(itr), ResetCall(itr), DestroyCall(itr)>>
                      ELSE Append(calls, AutoCall(itr))
          /\ outs' = Append(outs, out)
          /\ results' = Append(results, NextResult(out))
    /\ UNCHANGED <<itr, state, reqs, access, raw, decoded, twin>>

\* Iterator::next: one call of bam_plp_auto, whose outcome is classified
\* and returned.
PullNext ==
    /\ state = "live"
    /\ Len(results) < MaxPulls
    /\ \E out \in EngineOuts :
          /\ calls' = Append(calls, AutoCall(itr))
          /\ outs' = Append(outs, out)
          /\ results' = Append(results, NextResult(out))
    /\ UNCHANGED <<itr, state, reqs, access, raw, decoded, twin>>

\* Values of the three output slots when the engine is held to no contract:
\* any i32, the extremes and the sentinel among them.
SlotVals == {I32Min, -1, 0, I32Max}

\* bam_plp_auto returning a non-null pointer with any slot values.
SlotOuts == [ptr : Ptrs, tid : SlotVals, pos : SlotVals, depth : SlotVals]

\* Iterator::next over an engine that writes any i32 to the slots.
PullAnySlots ==
    /\ state = "live"
    /\ Len(results) < MaxPulls
    /\ \E out \in SlotOuts :
          /\ calls' = Append(calls, AutoCall(itr))
          /\ outs' = Append(outs, out)
          /\ results' = Append(results, NextResult(out))
    /\ UNCHANGED <<itr, state, reqs, access, raw, decoded, twin>>

\* ---------------------------------------------------- Pileups::set_max_depth

\* Arguments the consumer passes to set_max_depth (any u32).
MaxDepthArgs == {I32Max, I32Max + 1}

\* set_max_depth that also resets the engine's read buffer.
SetMaxDepth_alsoResets ==
    /\ state = "live"
    /\ Len(reqs) < MaxSetCalls
    /\ \E k \in MaxDepthArgs :
          /\ calls' = calls \o <<SetMaxcntCall(itr, AsI32(k)), ResetCall(itr)>>
          /\ reqs' = Append(reqs, k)
    /\ UNCHANGED <<itr, state, outs, results, access, raw, decoded, twin>>

\* bam_plp_set_maxcnt(self.itr, depth as i32)
SetMaxDepth ==
    /\ state = "live"
    /\ Len(reqs) < MaxSetCalls
    /\ \E k \in MaxDepthArgs :
          /\ calls' = Append(calls, SetMaxcntCall(itr, AsI32(k)))
          /\ reqs' = Append(reqs, k)
    /\ UNCHANGED <<itr, state, outs, results, access, raw, decoded, twin>>

\* ------------------------------------------------------------ Drop for Pileups

\* drop() with the two engine calls in the opposite order.
Drop_destroyFirst ==
    /\ state = "live"
    /\ calls' = calls \o <<DestroyCall(itr), ResetCall(itr)>>
    /\ state' = "dropped"
    /\ UNCHANGED <<itr, outs, results, reqs, access, raw, decoded, twin>>

\* bam_plp_reset(self.itr); bam_plp_destroy(self.itr);  The instance is gone
\* afterwards: no method of it can be called again.
Drop ==
    /\ state = "live"
    /\ calls' = calls \o <<ResetCall(itr), DestroyCall(itr)>>
    /\ state' = "dropped"
    /\ UNCHANGED <<itr, outs, results, reqs, access, raw, decoded, twin>>

\* ------------------------------------------------------------ Pileup, Alignment

\* The column the engine handed out on pull n is backed by engine memory
\* until the engine is advanced again or its handle is destroyed.
Fresh(n) == state = "live" /\ n = Len(outs)

\* The records of the column the engine produced on pull n, in array order.
EngineArray(n) == [j \in 1 .. outs[n].depth |-> [b |-> 10 * n + j]]

Garbage == [b |-> 0]

\* What engine memory holds at address ptr now: the array of the latest
\* column if it lives there, nothing the engine vouches for otherwise.
Memory(ptr) ==
    IF ptr # NULL /\ Len(outs) > 0 /\ Fresh(Len(outs)) /\ outs[Len(outs)].ptr = ptr
    THEN [mapped |-> TRUE, elems |-> EngineArray(Len(outs))]
    ELSE [mapped |-> FALSE, elems |-> <<>>]

\* inner() with a slice one record longer than the depth.
inner_oneTooMany(col) ==
    LET m == Memory(col.inner) IN
    IF m.mapped /\ col.depth + 1 <= Len(m.elems)
    THEN {[kind |-> "slice", elems |-> SubSeq(m.elems, 1, col.depth + 1)]}
    ELSE {[kind |-> "fault", elems |-> <<>>],
          [kind |-> "slice", elems |-> [j \in 1 .. col.depth + 1 |-> Garbage]]}

\* slice::from_raw_parts(self.inner, self.depth as usize): the first `depth`
\* records at the address.  Reading records the engine does not hold there
\* is undefined: the read faults or yields whatever the memory contains.
inner(col) ==
    LET m == Memory(col.inner) IN
    IF m.mapped /\ col.depth <= Len(m.elems)
    THEN {[kind |-> "slice", elems |-> SubSeq(m.elems, 1, col.depth)]}
    ELSE {[kind |-> "fault", elems |-> <<>>],
          [kind |-> "slice", elems |-> [j \in 1 .. col.depth |-> Garbage]]}

\* Alignment::new
AlignmentNew(rec) == [inner |-> rec]

\* self.inner().iter().map(Alignment::new)
alignments(col) ==
    {[kind |-> IF s.kind = "slice" THEN "items" ELSE s.kind,
      items |-> [j \in 1 .. Len(s.elems) |-> AlignmentNew(s.elems[j])]] : s \in inner(col)}

NoAccess == [pull |-> 0, fresh |-> TRUE, out |-> [kind |-> "none", items |-> <<>>]]

\* The consumer calls alignments() on the column it got from pull n.  Pileup
\* is an owned value without a lifetime: the consumer keeps every column it
\* was given for as long as it likes.
Alignments ==
    /\ \E n \in 1 .. Len(results) :
          /\ results[n].kind = "Ok"
          /\ \E o \in alignments(results[n].val) :
                access' = [pull |-> n, fresh |-> Fresh(n), out |-> o]
    /\ UNCHANGED <<itr, state, calls, outs, results, reqs, raw, decoded, twin>>

\* ------------------------------------------------------ a second instance

\* Raw handles a caller can pass to Pileups::new, which takes any of them.
RawHandles == {1, 2}

NoTwin == [itr |-> NULL, state |-> "none"]

\* Pileups::new(h) called a second time: Pileups { itr: h }, with whatever
\* handle the caller passes.
NewTwin ==
    /\ twin = NoTwin
    /\ \E h \in RawHandles : twin' = [itr |-> h, state |-> "live"]
    /\ UNCHANGED <<itr, state, calls, outs, results, reqs, access, raw, decoded>>

\* Drop for the second instance.
DropTwin ==
    /\ twin.state = "live"
    /\ calls' = calls \o <<ResetCall(twin.itr), DestroyCall(twin.itr)>>
    /\ twin' = [twin EXCEPT !.state = "dropped"]
    /\ UNCHANGED <<itr, state, outs, results, reqs, access, raw, decoded>>

\* --------------------------------------------------------- Alignment::indel

\* -len on an i32: the checked build panics on overflow, the unchecked build
\* wraps around.
Negate(len) ==
    IF len = I32Min
    THEN {[kind |-> "panic", val |-> 0], [kind |-> "value", val |-> AsI32(-len)]}
    ELSE {[kind |-> "value", val |-> -len]}

\* match self.inner.indel { len if len < 0 => Del(-len as u32),
\*                          len if len > 0 => Ins(len as u32), _ => None }
indel(len) ==
    IF len < 0
    THEN {IF n.kind = "panic" THEN [kind |-> "panic", len |-> 0]
                              ELSE [kind |-> "Del", len |-> AsU32(n.val)] : n \in Negate(len)}
    ELSE IF len > 0
         THEN {[kind |-> "Ins", len |-> AsU32(len)]}
         ELSE {[kind |-> "None", len |-> 0]}

NotDecoded == [kind |-> "undecoded", len |-> 0]

\* Raw indel values of a record: every i32 near the ends and near zero.
RawSpan == 20
RawVals == (I32Min .. I32Min + RawSpan) \cup (-RawSpan .. RawSpan)
              \cup (I32Max - RawSpan .. I32Max)

\* The consumer calls indel() on an alignment whose record holds `raw`.
IndelCall ==
    /\ decoded = NotDecoded
    /\ decoded' \in indel(raw)
    /\ UNCHANGED <<itr, state, calls, outs, results, reqs, access, raw, twin>>

\* ------------------------------------------------------------ specifications

\* Pileups::new(itr): Pileups { itr: itr }
Init ==
    /\ itr \in Handles
    /\ state = "live"
    /\ calls = <<>>
    /\ outs = <<>>
    /\ results = <<>>
    /\ reqs = <<>>
    /\ access = NoAccess
    /\ raw = 0
    /\ decoded = NotDecoded
    /\ twin = NoTwin

\* The life of one Pileups instance: pulls, set_max_depth calls, teardown.
Next == PullNext \/ SetMaxDepth \/ Drop

Spec == Init /\ [][Next]_vars

\* The consumer's use of the columns it was given, over the same life.
NextColumns == PullNext \/ Alignments \/ Drop

SpecColumns == Init /\ [][NextColumns]_vars

\* next() applied to every combination of slot values of SlotVals.
NextCast == PullAnySlots

SpecCast == Init /\ [][NextCast]_vars

\* Two Pileups instances constructed by the same caller.
NextTwo == PullNext \/ Drop \/ NewTwin \/ DropTwin

SpecTwo == Init /\ [][NextTwo]_vars

\* Alignment::indel applied to every raw value of RawVals.
InitDecode ==
    /\ itr \in Handles
    /\ state = "live"
    /\ calls = <<>>
    /\ outs = <<>>
    /\ results = <<>>
    /\ reqs = <<>>
    /\ access = NoAccess
    /\ raw \in RawVals
    /\ decoded = NotDecoded
    /\ twin = NoTwin

NextDecode == IndelCall

SpecDecode == InitDecode /\ [][NextDecode]_vars

\* -------------------------------------------------------------- properties

\* The engine calls of one operation, in the order they were made.
CallsOf(op) == SelectSeq(calls, LAMBDA c : c.op = op)

IsErrorSentinel(out) == out.ptr = NULL /\ out.depth = -1
IsEndOfData(out) == out.ptr = NULL /\ out.depth # -1
IsColumn(out) == out.ptr # NULL

\* C1: if the engine produces columns on pulls 1..k-1 and signals the error
\* sentinel on pull k, then pulls 1..k-1 yield Ok, pull k yields the error,
\* every later pull yields end-of-data, and the engine is not advanced
\* again after pull k.
C1_ErrorEndsTheSequence ==
    \A k \in 1 .. Len(outs) :
        (IsErrorSentinel(outs[k]) /\ \A j \in 1 .. k - 1 : IsColumn(outs[j]))
        => /\ \A j \in 1 .. k - 1 : results[j].kind = "Ok"
           /\ results[k] = ErrResult
           /\ \A j \in k + 1 .. Len(results) : results[j] = NoneResult
           /\ Len(CallsOf("bam_plp_auto")) <= k

\* C2: teardown makes the reset call and then the destroy call on the
\* instance's handle, each exactly once and as the last two engine calls,
\* whatever was pulled before; before teardown neither call has been made.
C2_TeardownResetThenDestroyOnce ==
    /\ state = "live"
          => Len(CallsOf("bam_plp_reset")) = 0 /\ Len(CallsOf("bam_plp_destroy")) = 0
    /\ state = "dropped"
          => /\ Len(calls) >= 2
             /\ calls[Len(calls) - 1] = ResetCall(itr)
             /\ calls[Len(calls)] = DestroyCall(itr)
             /\ Len(CallsOf("bam_plp_reset")) = 1
             /\ Len(CallsOf("bam_plp_destroy")) = 1

\* Teardown after a column and then an error were pulled.
C2_Witness ==
    /\ state = "dropped"
    /\ Len(results) >= 2
    /\ results[1].kind = "Ok"
    /\ results[Len(results)].kind = "Err"

\* C3: each pull's result is decided by the returned pointer and the depth
\* slot alone: null with depth -1 is the error, null with any other depth is
\* end-of-data and never an error, non-null is Ok; exactly one case applies.
C3_ResultDecidedByPointerAndDepth ==
    /\ Len(results) = Len(outs)
    /\ \A i \in 1 .. Len(results) :
          /\ results[i].kind \in {"Ok", "Err", "None"}
          /\ results[i].kind = "Err" <=> (outs[i].ptr = NULL /\ outs[i].depth = -1)
          /\ results[i].kind = "None" <=> (outs[i].ptr = NULL /\ outs[i].depth # -1)
          /\ results[i].kind = "Ok" <=> outs[i].ptr # NULL

\* All three cases were pulled, end-of-data with a negative depth that is
\* not the sentinel.
C3_Witness ==
    /\ \E i \in 1 .. Len(results) : results[i].kind = "Ok"
    /\ \E i \in 1 .. Len(results) : results[i].kind = "Err"
    /\ \E i \in 1 .. Len(results) :
          results[i].kind = "None" /\ outs[i].ptr = NULL /\ outs[i].depth = -2

\* C4: when the engine produces N columns and then signals normal
\* end-of-data, the first N+1 pulls yield N Ok results followed by one
\* end-of-data, with no error among them.
C4_NColumnsThenEndOfData ==
    \A n \in 0 .. Len(outs) - 1 :
        ((\A i \in 1 .. n : IsColumn(outs[i])) /\ IsEndOfData(outs[n + 1]))
        => /\ Len(results) >= n + 1
           /\ \A i \in 1 .. n : results[i].kind = "Ok"
           /\ results[n + 1] = NoneResult
           /\ Cardinality({i \in 1 .. n + 1 : results[i].kind = "None"}) = 1
           /\ \A i \in 1 .. n + 1 : results[i].kind # "Err"

\* Two columns, one of them empty, then end-of-data.
C4_Witness ==
    /\ Len(results) = 3
    /\ IsColumn(outs[1]) /\ IsColumn(outs[2]) /\ IsEndOfData(outs[3])
    /\ outs[2].depth = 0

\* C5: a column is used by the consumer only while it is the latest one
\* pulled from a sequence that has not been torn down.
C5_NoColumnUsedAfterAdvance == access.fresh

\* C6: indel() returns Deletion(|v|) for a negative raw value v,
\* Insertion(v) for a positive one and None for zero, and nothing else.
C6_IndelTotalAndExact ==
    decoded # NotDecoded
    => decoded = (IF raw < 0 THEN [kind |-> "Del", len |-> -raw]
                  ELSE IF raw > 0 THEN [kind |-> "Ins", len |-> raw]
                  ELSE [kind |-> "None", len |-> 0])

\* C7: every call set_max_depth(k) makes one set-max-depth call on the
\* instance's handle that carries exactly k.
C7_MaxDepthForwardedUnchanged ==
    LET sent == CallsOf("bam_plp_set_maxcnt") IN
    /\ Len(sent) = Len(reqs)
    /\ \A i \in 1 .. Len(sent) : sent[i].h = itr /\ sent[i].arg = reqs[i]

\* C8: there are as many advance calls on the instance's handle, and as many
\* engine outcomes, as there are pulls: each pull makes exactly one.
C8_OneEngineCallPerPull ==
    /\ Len(CallsOf("bam_plp_auto")) = Len(results)
    /\ Len(outs) = Len(results)
    /\ \A i \in 1 .. Len(calls) : calls[i].op = "bam_plp_auto" => calls[i] = AutoCall(itr)

\* Pulls went on after an error and after end-of-data.
C8_Witness ==
    /\ Len(results) = 3
    /\ results[1].kind = "Err"
    /\ results[2].kind = "None"

NonDecreasing(cs) ==
    \A i \in 1 .. Len(cs) - 1 :
        cs[i].tid < cs[i + 1].tid \/ (cs[i].tid = cs[i + 1].tid /\ cs[i].pos <= cs[i + 1].pos)

\* C9: the i-th Ok result carries the reference id, position, depth and
\* pointer of the i-th column the engine produced, nothing is dropped or
\* added, and the delivered columns are non-decreasing by (reference id,
\* position) whenever the engine's are.
C9_ColumnsInEngineOrder ==
    LET produced == SelectSeq(outs, IsColumn)
        delivered == SelectSeq(results, LAMBDA r : r.kind = "Ok")
    IN  /\ Len(delivered) = Len(produced)
        /\ \A i \in 1 .. Len(delivered) :
              /\ delivered[i].val.inner = produced[i].ptr
              /\ delivered[i].val.tid = produced[i].tid
              /\ delivered[i].val.pos = produced[i].pos
              /\ delivered[i].val.depth = produced[i].depth
        /\ NonDecreasing(produced)
              => NonDecreasing([i \in 1 .. Len(delivered) |-> delivered[i].val])

\* Two different columns were delivered around a pull that gave none.
C9_Witness ==
    /\ Len(results) = 3
    /\ results[1].kind = "Ok" /\ results[2].kind # "Ok" /\ results[3].kind = "Ok"
    /\ results[1].val.tid < results[3].val.tid
    /\ results[1].val.depth # results[3].val.depth

\* C10: alignments() on a column within its lifetime yields exactly depth()
\* items, the j-th being the view of the j-th record of the engine's array.
C10_AlignmentsYieldsDepthItems ==
    (access # NoAccess /\ access.fresh)
    => /\ access.out.kind = "items"
       /\ Len(access.out.items) = results[access.pull].val.depth
       /\ Len(access.out.items) = Len(EngineArray(access.pull))
       /\ \A j \in 1 .. Len(access.out.items) :
             access.out.items[j] = AlignmentNew(EngineArray(access.pull)[j])

\* alignments() was called on the second column pulled, of two records.
C10_Witness ==
    /\ access.pull = 2
    /\ access.fresh
    /\ results[2].val.depth = 2
    /\ Len(access.out.items) = 2


\* C11: with a non-null pointer, the yielded column's reference id, position
\* and depth equal the values the engine wrote to the three output slots,
\* whatever signed values those are.
C11_ColumnCarriesSlotValues ==
    \A i \in 1 .. Len(results) :
        IsColumn(outs[i])
        => /\ results[i].kind = "Ok"
           /\ results[i].val.tid = outs[i].tid
           /\ results[i].val.pos = outs[i].pos
           /\ results[i].val.depth = outs[i].depth


\* C12: once a pull has returned end-of-data, every later pull on the same
\* sequence returns end-of-data too, never a column or an error.
C12_ExhaustedIsTerminal ==
    \A i \in 1 .. Len(results) :
        results[i] = NoneResult
        => \A j \in i + 1 .. Len(results) : results[j] = NoneResult


\* A pull has returned an error or end-of-data.
Terminal == \E i \in 1 .. Len(results) : results[i].kind \in {"Err", "None"}

\* C13 as stated: once a terminal result has been returned, the reset and
\* destroy calls have been made.
C13_ReleasedAtTerminalResult ==
    Terminal
    => Len(CallsOf("bam_plp_reset")) = 1 /\ Len(CallsOf("bam_plp_destroy")) = 1

\* C13 as amended: after a terminal result the handle is released by
\* teardown and not before: while the instance is live no reset or destroy
\* call has been made, and once it is dropped one reset and then one destroy
\* have been made on its handle, after every advance call.
C13_ReleasedByTeardownOnly ==
    Terminal
    => /\ Len(CallsOf("bam_plp_reset")) = (IF state = "dropped" THEN 1 ELSE 0)
       /\ Len(CallsOf("bam_plp_destroy")) = (IF state = "dropped" THEN 1 ELSE 0)
       /\ \A i \in 1 .. Len(calls) :
             calls[i].op = "bam_plp_auto"
             => \A j \in 1 .. i : calls[j].op \notin {"bam_plp_reset", "bam_plp_destroy"}
       /\ state = "dropped"
             => calls[Len(calls) - 1] = ResetCall(itr) /\ calls[Len(calls)] = DestroyCall(itr)

\* A column and then end-of-data were pulled and the instance is still live.
C13_Witness ==
    /\ state = "live"
    /\ Len(results) = 2
    /\ results[1].kind = "Ok"
    /\ results[2].kind = "None"


\* C14: a set_max_depth call leaves the instance's state and handle, the
\* engine outcomes and the results as they were and adds the one
\* set-max-depth call to the engine calls, no advance, reset or destroy
\* call; and pulls with the same engine output give the same result whether
\* or not set_max_depth was called between them.
C14_SetMaxDepthHasNoStateEffect ==
    /\ [][reqs' # reqs
          => /\ itr' = itr /\ state' = state /\ state = "live"
             /\ outs' = outs /\ results' = results
             /\ Len(calls') = Len(calls) + 1
             /\ SubSeq(calls', 1, Len(calls)) = calls
             /\ calls'[Len(calls')].op = "bam_plp_set_maxcnt"
             /\ calls'[Len(calls')].h = itr]_vars
    /\ [](\A i, j \in 1 .. Len(results) : outs[i] = outs[j] => results[i] = results[j])

\* set_max_depth was called between two pulls with the same engine output.
C14_Witness ==
    /\ Len(results) = 2
    /\ Len(calls) = 3
    /\ calls[2].op = "bam_plp_set_maxcnt"
    /\ outs[1] = outs[2]
    /\ results[1].kind = "Ok"


\* C15: no handle is held by two live Pileups instances at once, and no
\* handle is reset or destroyed more than once over all instances.
C15_HandleExclusivelyOwned ==
    /\ ~(state = "live" /\ twin.state = "live" /\ twin.itr = itr)
    /\ \A h \in RawHandles \cup Handles :
          /\ Cardinality({i \in 1 .. Len(calls) : calls[i] = ResetCall(h)}) <= 1
          /\ Cardinality({i \in 1 .. Len(calls) : calls[i] = DestroyCall(h)}) <= 1


\* C16: the instance's handle is the one it was constructed with for good,
\* every engine call is made on it, and the destroy call is the last engine
\* call: no advance, set-max-depth or reset call follows it.
C16_CallsOnOwnHandleDestroyLast ==
    /\ [][itr' = itr]_vars
    /\ [](\A i \in 1 .. Len(calls) :
             /\ calls[i].h = itr
             /\ calls[i].op = "bam_plp_destroy" => i = Len(calls))

\* All four engine operations were called before the instance was dropped.
C16_Witness ==
    /\ state = "dropped"
    /\ Len(CallsOf("bam_plp_auto")) >= 2
    /\ Len(CallsOf("bam_plp_set_maxcnt")) = 1
    /\ Len(CallsOf("bam_plp_reset")) = 1
    /\ calls[Len(calls)].op = "bam_plp_destroy"

====
